---------------------------- MODULE Spec2Model ----------------------------
(* Substrate permittivity extraction from a ring-resonator S21 trace.     *)
(* Model of substrate_permittivity_extraction.py: peak detection, the     *)
(* -3 dB loss-tangent estimate, length calibration, the permittivity      *)
(* formulas and the straight-line pipeline of main().                     *)
(*                                                                        *)
(* Arrays are functions over 0..n-1 (Python indexing); Python lists that  *)
(* are only appended to and zipped are sequences.  Floating-point values  *)
(* are exact rationals extended with inf and nan, following the IEEE      *)
(* rules numpy applies (x/0 = inf, sqrt(x<0) = nan, nan propagates).      *)
EXTENDS Integers, Sequences, FiniteSets, TLC

VARIABLES
    freq,           \* ntwk.f: frequency array (Hz)
    mag_db,         \* 20*log10(|S21|): magnitude array (dB)
    cfg,            \* the CONFIG block
    pc,             \* position in main() (or in a function-level harness)
    peaks,          \* indices returned by find_s21_peaks
    freqs,          \* freq[peaks]
    n_modes,        \* np.arange(1, len(freqs)+1)
    L, h, w,        \* ring length, substrate height, trace width (m)
    eps_eff,        \* effective permittivity per mode
    eps_r,          \* substrate permittivity per mode
    loss_tangents,  \* list returned by calculate_loss_tangent
    df,             \* the result DataFrame, one record per row
    means,          \* the three column means main prints
    out,            \* observable effects in order (prints, files, raise)
    calls           \* number of estimate_effective_length invocations

vars == <<freq, mag_db, cfg, pc, peaks, freqs, n_modes, L, h, w,
          eps_eff, eps_r, loss_tangents, df, means, out, calls>>

-----------------------------------------------------------------------------
(* Bounds of the model                                                     *)

MaxLen == 5        \* longest trace in a pipeline run
MaxMag == 3        \* magnitudes are 0..MaxMag dB
MaxLossLen == 3    \* longest trace given to calculate_loss_tangent alone
MaxFreq == 2       \* frequencies there are 1..MaxFreq grid steps
MaxPeakDb == 2     \* MIN_PEAK_DB given to find_s21_peaks alone is 0..MaxPeakDb
MaxCalFreq == 9    \* calibration frequencies are 1..MaxCalFreq grid steps
MaxPeaks == 2      \* longest peak list given to calculate_loss_tangent alone
MaxRoot == 2       \* calibration permittivities are (a/b)^2, 1 <= b <= a <= MaxRoot
MaxMode == 2       \* calibration mode numbers are 1..MaxMode

(* Speed of light in vacuum (m/s)                                          *)
C0 == 299792458

(* Frequencies are drawn from a grid of C0/14 Hz (about 21.4 MHz), so that *)
(* C0*n/(f*L) stays a small rational.                                      *)
FreqStep == C0 \div 14

-----------------------------------------------------------------------------
(* Exact arithmetic on extended rationals                                  *)

Abs(x) == IF x < 0 THEN -x ELSE x

Sgn(x) == IF x < 0 THEN -1 ELSE IF x = 0 THEN 0 ELSE 1

RECURSIVE GCD(_, _)
GCD(a, b) == IF b = 0 THEN a ELSE GCD(b, a % b)

Fin(n, d) ==
    LET g == GCD(Abs(n), Abs(d))
        s == IF d < 0 THEN -1 ELSE 1
    IN  [k |-> "fin", n |-> s * (n \div g), d |-> s * (d \div g)]

Num(i) == [k |-> "fin", n |-> i, d |-> 1]

Inf(s) == [k |-> "inf", n |-> s, d |-> 0]

NaN == [k |-> "nan", n |-> 0, d |-> 0]

IsNaN(x) == x.k = "nan"

IsFin(x) == x.k = "fin"

FSgn(x) == Sgn(x.n)

FNeg(x) == [x EXCEPT !.n = -x.n]

FMul(x, y) ==
    IF IsNaN(x) \/ IsNaN(y) THEN NaN
    ELSE IF ~IsFin(x) \/ ~IsFin(y)
         THEN IF FSgn(x) = 0 \/ FSgn(y) = 0 THEN NaN ELSE Inf(FSgn(x) * FSgn(y))
    ELSE LET g1 == GCD(Abs(x.n), y.d)
             g2 == GCD(Abs(y.n), x.d)
         IN  IF x.n = 0 \/ y.n = 0 THEN Num(0)
             ELSE Fin((x.n \div g1) * (y.n \div g2), (x.d \div g2) * (y.d \div g1))

FDiv(x, y) ==
    IF IsNaN(x) \/ IsNaN(y) THEN NaN
    ELSE IF ~IsFin(x)
         THEN IF ~IsFin(y) THEN NaN
              ELSE Inf(FSgn(x) * (IF FSgn(y) < 0 THEN -1 ELSE 1))
    ELSE IF ~IsFin(y) THEN Num(0)
    ELSE IF y.n = 0
         THEN IF x.n = 0 THEN NaN ELSE Inf(FSgn(x))
    ELSE FMul(x, Fin(y.d, y.n))

FAdd(x, y) ==
    IF IsNaN(x) \/ IsNaN(y) THEN NaN
    ELSE IF ~IsFin(x)
         THEN IF ~IsFin(y) /\ y.n # x.n THEN NaN ELSE x
    ELSE IF ~IsFin(y) THEN y
    ELSE Fin(x.n * y.d + y.n * x.d, x.d * y.d)

FSub(x, y) == FAdd(x, FNeg(y))

(* x > 0 as Python evaluates it: False for nan                             *)
FGtZero(x) == ~IsNaN(x) /\ FSgn(x) > 0

(* x >= y for finite x, y                                                  *)
FGe(x, y) == x.n * y.d >= y.n * x.d

ISqrt(n) == CHOOSE r \in 0..n : r * r <= n /\ (r + 1) * (r + 1) > n

(* np.sqrt: nan below zero; the inputs drawn are squares of rationals, on  *)
(* which the root is exact                                                 *)
FSqrt(x) ==
    IF IsNaN(x) THEN NaN
    ELSE IF ~IsFin(x) THEN (IF x.n > 0 THEN x ELSE NaN)
    ELSE IF x.n < 0 THEN NaN
    ELSE Fin(ISqrt(x.n), ISqrt(x.d))

FSquare(x) == FMul(x, x)

-----------------------------------------------------------------------------
(* Arrays                                                                  *)

Len0(a) == Cardinality(DOMAIN a)

Last(a) == Len0(a) - 1

(* a[idx] for a sequence of indices idx (numpy fancy indexing)             *)
Take(a, idx) == [j \in 1..Len(idx) |-> a[idx[j]]]

(* the k-th smallest sample, k in 1..n                                     *)
KthSmallest(a, k) ==
    CHOOSE v \in {a[i] : i \in DOMAIN a} :
        /\ Cardinality({i \in DOMAIN a : a[i] < v}) < k
        /\ Cardinality({i \in DOMAIN a : a[i] <= v}) >= k

(* np.median: the middle sample, or the mean of the two middle samples     *)
Median(a) ==
    LET n == Len0(a)
    IN  IF n % 2 = 1 THEN Num(KthSmallest(a, (n + 1) \div 2))
        ELSE Fin(KthSmallest(a, n \div 2) + KthSmallest(a, n \div 2 + 1), 2)


(* np.arange(len) in place of np.arange(1, len + 1)                        *)
ArangeFromZero(a, b) == [j \in 1..(b - a) |-> a + j - 2]

Arange(a, b) == [j \in 1..(b - a) |-> a + j - 1]

-----------------------------------------------------------------------------
(* find_s21_peaks                                                          *)

(* scipy.signal.find_peaks, local-maximum search: the inner scan that     *)
(* walks over a run of samples equal to v and stops at its end or at the  *)
(* last sample                                                             *)
RECURSIVE PlateauEnd(_, _, _)
PlateauEnd(x, i_ahead, v) ==
    IF i_ahead < Last(x) /\ x[i_ahead] = v
    THEN PlateauEnd(x, i_ahead + 1, v)
    ELSE i_ahead

(* scipy.signal.find_peaks, local-maximum search: a rise at i followed,   *)
(* after a run of equal samples, by a fall is a maximum, reported at the  *)
(* middle of the run (rounded down); the first and last samples never are *)
RECURSIVE LocalMaxima(_, _, _)
LocalMaxima(x, i, midpoints) ==
    IF i >= Last(x) THEN midpoints
    ELSE IF x[i - 1] < x[i]
         THEN LET i_ahead == PlateauEnd(x, i + 1, x[i])
              IN  IF x[i_ahead] < x[i]
                  THEN LocalMaxima(x, i_ahead + 1,
                                   Append(midpoints, (i + i_ahead - 1) \div 2))
                  ELSE LocalMaxima(x, i + 1, midpoints)
    ELSE LocalMaxima(x, i + 1, midpoints)

Threshold(x, min_peak_db) == FAdd(Median(x), Num(min_peak_db))

(* a height test that drops a maximum exactly at the threshold             *)
HeightAbove(x, p, threshold) == ~FGe(threshold, Num(x[p]))

(* height=threshold keeps the maxima with x[peak] >= threshold             *)
HeightOk(x, p, threshold) == FGe(Num(x[p]), threshold)

find_s21_peaks(x, min_peak_db) ==
    LET threshold == Threshold(x, min_peak_db)
    IN  SelectSeq(LocalMaxima(x, 1, <<>>), LAMBDA p : HeightOk(x, p, threshold))

-----------------------------------------------------------------------------
(* calculate_loss_tangent                                                  *)

(* a left scan that walks over a sample exactly 3 dB down                  *)
RECURSIVE ScanLeftPast(_, _, _)
ScanLeftPast(mag, left, half_mag) ==
    IF left > 0 /\ mag[left] >= half_mag
    THEN ScanLeftPast(mag, left - 1, half_mag)
    ELSE left

RECURSIVE ScanLeft(_, _, _)
ScanLeft(mag, left, half_mag) ==
    IF left > 0 /\ mag[left] > half_mag
    THEN ScanLeft(mag, left - 1, half_mag)
    ELSE left

RECURSIVE ScanRight(_, _, _)
ScanRight(mag, right, half_mag) ==
    IF right < Len0(mag) - 1 /\ mag[right] > half_mag
    THEN ScanRight(mag, right + 1, half_mag)
    ELSE right

(* the half-power level taken 3 dB above the peak                          *)
HalfMagAbove(mag, peak_idx) == mag[peak_idx] + 3

HalfMag(mag, peak_idx) == mag[peak_idx] - 3

LeftOf(mag, peak_idx) == ScanLeft(mag, peak_idx, HalfMag(mag, peak_idx))

RightOf(mag, peak_idx) == ScanRight(mag, peak_idx, HalfMag(mag, peak_idx))

(* one pass of the loop body                                               *)
LossTangentOf(f, mag, peak_idx) ==
    LET f_left == Num(f[LeftOf(mag, peak_idx)])
        f_right == Num(f[RightOf(mag, peak_idx)])
        f0 == Num(f[peak_idx])
        bw == FSub(f_right, f_left)
        Q == IF FGtZero(bw) THEN FDiv(f0, bw) ELSE NaN
    IN  IF FGtZero(Q) THEN FDiv(Num(1), Q) ELSE NaN

(* a loop that gives up at the first peak without a loss tangent           *)
RECURSIVE LossLoopStopping(_, _, _, _)
LossLoopStopping(f, mag, pks, acc) ==
    IF pks = <<>> THEN acc
    ELSE IF IsNaN(LossTangentOf(f, mag, Head(pks))) THEN acc
    ELSE LossLoopStopping(f, mag, Tail(pks),
                          Append(acc, LossTangentOf(f, mag, Head(pks))))

RECURSIVE LossLoop(_, _, _, _)
LossLoop(f, mag, pks, acc) ==
    IF pks = <<>> THEN acc
    ELSE LossLoop(f, mag, Tail(pks), Append(acc, LossTangentOf(f, mag, Head(pks))))

calculate_loss_tangent(f, mag, pks) == LossLoop(f, mag, pks, <<>>)

-----------------------------------------------------------------------------
(* estimate_effective_length, the ring resonance condition and             *)
(* microstrip_eps_r                                                        *)

(* the length formula without the square root                              *)
EstimateWithoutRoot(eps_known, freq_Hz, mode_n) ==
    FDiv(FMul(Num(C0), Num(mode_n)), FMul(Num(freq_Hz), eps_known))

estimate_effective_length(eps_known, freq_Hz, mode_n) ==
    FDiv(FMul(Num(C0), Num(mode_n)), FMul(Num(freq_Hz), FSqrt(eps_known)))

(* (C0 * n / (f * L)) ** 2 for one mode                                    *)
EffEps(n, f, len) == FSquare(FDiv(FMul(Num(C0), Num(n)), FMul(Num(f), len)))

(* h and w are Python floats: 12.0 * h / w raises ZeroDivisionError for    *)
(* w = 0; everything after np.sqrt is numpy arithmetic and raises nothing  *)
microstrip_eps_r(e, hh, ww) ==
    IF ww.n = 0 THEN [exc |-> "ZeroDivisionError", val |-> <<>>]
    ELSE LET a == FDiv(Num(1), FSqrt(FAdd(Num(1), FDiv(FMul(Num(12), hh), ww))))
         IN  [exc |-> "none",
              val |-> [j \in 1..Len(e) |->
                         FDiv(FSub(FAdd(FMul(Num(2), e[j]), a), Num(1)),
                              FAdd(Num(1), a))]]


-----------------------------------------------------------------------------
(* pandas Series.mean(): missing values are skipped                        *)

RECURSIVE FSum(_)
FSum(s) == IF s = <<>> THEN Num(0) ELSE FAdd(Head(s), FSum(Tail(s)))

MeanOf(s) ==
    LET present == SelectSeq(s, LAMBDA x : ~IsNaN(x))
    IN  IF present = <<>> THEN NaN ELSE FDiv(FSum(present), Num(Len(present)))

-----------------------------------------------------------------------------
(* Inputs                                                                  *)

None == [k |-> "none", n |-> 0, d |-> 0]

Traces(maxlen) == UNION {[0..(n - 1) -> 0..MaxMag] : n \in 1..maxlen}

(* a sweep with strictly increasing frequency points                      *)
RisingGrid(n) == [i \in 0..(n - 1) |-> (i + 1) * FreqStep]

(* a zero-span sweep: every point at the same frequency                    *)
FlatGrid(n) == [i \in 0..(n - 1) |-> FreqStep]

(* The CONFIG block.  Lengths are in mm as in the source; the calibration  *)
(* permittivity is a rational.                                             *)
BaseConfig ==
    [CALIBRATE_L |-> FALSE,
     CALIBRATION_FREQ_HZ |-> FreqStep,
     CALIBRATION_EPSILON |-> Num(4),
     CALIBRATION_MODE_N |-> 1,
     RING_LENGTH_MM |-> 1000,
     SUBSTRATE_H_MM |-> 1,
     TRACE_W_MM |-> 4]

(* known resonances: usable ones, then permittivity 0, permittivity < 0,   *)
(* frequency 0 and frequency < 0                                           *)
Calibrations ==
    {<<Num(4), FreqStep, 1>>, <<Num(4), 2 * FreqStep, 1>>,
     <<Num(0), FreqStep, 1>>, <<Num(-4), FreqStep, 1>>,
     <<Num(4), 0, 1>>, <<Num(4), -FreqStep, 1>>}

(* <<SUBSTRATE_H_MM, TRACE_W_MM>>: physical ones, then w = 0, h = 0,       *)
(* w < 0 with 1 + 12h/w < 0, w < 0 with 1 + 12h/w = 0, and h < 0           *)
Geometries ==
    {<<1, 4>>, <<2, 3>>, <<1, 0>>, <<0, 4>>, <<1, -1>>, <<1, -12>>, <<-1, 16>>}

WithGeometry(c, g) == [c EXCEPT !.SUBSTRATE_H_MM = g[1], !.TRACE_W_MM = g[2]]

WithCalibration(c, k) ==
    [c EXCEPT !.CALIBRATE_L = TRUE,
              !.CALIBRATION_EPSILON = k[1],
              !.CALIBRATION_FREQ_HZ = k[2],
              !.CALIBRATION_MODE_N = k[3]]

(* every geometry without calibration; every known resonance with a       *)
(* physical geometry and with w = 0                                        *)
Configs ==
    {WithGeometry(BaseConfig, g) : g \in Geometries}
    \cup {WithGeometry(WithCalibration(BaseConfig, k), g) :
             k \in Calibrations, g \in {<<1, 4>>, <<1, 0>>}}

SAVE_CSV == TRUE

SHOW_PLOT == TRUE

InvalidGeometry(c) == c.SUBSTRATE_H_MM <= 0 \/ c.TRACE_W_MM <= 0

InvalidCalibration(c) ==
    c.CALIBRATION_EPSILON.n <= 0 \/ c.CALIBRATION_FREQ_HZ <= 0

-----------------------------------------------------------------------------
(* main()                                                                  *)

LaterUnset ==
    /\ L = None /\ h = None /\ w = None
    /\ eps_eff = <<>> /\ eps_r = <<>> /\ loss_tangents = <<>>
    /\ df = <<>> /\ means = None /\ out = <<>> /\ calls = 0

Unset == peaks = <<>> /\ freqs = <<>> /\ n_modes = <<>> /\ LaterUnset

(* the trace is loaded (lines 99-102); MIN_PEAK_DB is set; the rest of    *)
(* the CONFIG block is drawn where main first reads it                     *)
Init ==
    /\ mag_db \in Traces(MaxLen)
    /\ freq \in {RisingGrid(Len0(mag_db)), FlatGrid(Len0(mag_db))}
    /\ cfg = [MIN_PEAK_DB |-> 1]
    /\ pc = "find_peaks"
    /\ Unset

(* lines 105-107 *)
FindPeaks ==
    /\ pc = "find_peaks"
    /\ peaks' = find_s21_peaks(mag_db, cfg.MIN_PEAK_DB)
    /\ out' = Append(out, "threshold")
    /\ freqs' = Take(freq, peaks')
    /\ n_modes' = Arange(1, Len(freqs') + 1)
    /\ pc' = "check_peaks"
    /\ UNCHANGED <<freq, mag_db, cfg, L, h, w, eps_eff, eps_r, loss_tangents,
                   df, means, calls>>

(* the emptiness check without its raise                                   *)
CheckPeaksNoRaise ==
    /\ pc = "check_peaks"
    /\ pc' = "set_length"
    /\ UNCHANGED <<freq, mag_db, cfg, peaks, freqs, n_modes, L, h, w, eps_eff,
                   eps_r, loss_tangents, df, means, out, calls>>

(* lines 108-109 *)
CheckPeaks ==
    /\ pc = "check_peaks"
    /\ IF Len(freqs) = 0
       THEN /\ out' = Append(out, "RuntimeError")
            /\ pc' = "failed"
       ELSE /\ out' = out
            /\ pc' = "set_length"
    /\ UNCHANGED <<freq, mag_db, cfg, peaks, freqs, n_modes, L, h, w, eps_eff,
                   eps_r, loss_tangents, df, means, calls>>

(* lines 112-118 *)
SetLength ==
    /\ pc = "set_length"
    /\ \E c \in Configs :
        /\ cfg' = cfg @@ c
        /\ IF c.CALIBRATE_L
           THEN /\ L' = estimate_effective_length(c.CALIBRATION_EPSILON,
                            c.CALIBRATION_FREQ_HZ, c.CALIBRATION_MODE_N)
                /\ calls' = calls + 1
                /\ out' = Append(out, "calibration")
           ELSE /\ L' = FDiv(Num(c.RING_LENGTH_MM), Num(1000))
                /\ calls' = calls
                /\ out' = out
        /\ h' = FDiv(Num(c.SUBSTRATE_H_MM), Num(1000))
        /\ w' = FDiv(Num(c.TRACE_W_MM), Num(1000))
    /\ pc' = "eps_eff"
    /\ UNCHANGED <<freq, mag_db, peaks, freqs, n_modes, eps_eff, eps_r,
                   loss_tangents, df, means>>

(* the permittivity step calibrating again, from the first detected peak   *)
ComputeEpsEffRecalibrating ==
    /\ pc = "eps_eff"
    /\ L' = IF cfg.CALIBRATE_L
            THEN estimate_effective_length(cfg.CALIBRATION_EPSILON, freqs[1],
                                           cfg.CALIBRATION_MODE_N)
            ELSE L
    /\ calls' = IF cfg.CALIBRATE_L THEN calls + 1 ELSE calls
    /\ eps_eff' = [j \in 1..Len(freqs) |-> EffEps(n_modes[j], freqs[j], L')]
    /\ pc' = "eps_r"
    /\ UNCHANGED <<freq, mag_db, cfg, peaks, freqs, n_modes, h, w, eps_r,
                   loss_tangents, df, means, out>>

(* line 121 *)
ComputeEpsEff ==
    /\ pc = "eps_eff"
    /\ eps_eff' = [j \in 1..Len(freqs) |-> EffEps(n_modes[j], freqs[j], L)]
    /\ pc' = "eps_r"
    /\ UNCHANGED <<freq, mag_db, cfg, peaks, freqs, n_modes, L, h, w, eps_r,
                   loss_tangents, df, means, out, calls>>

(* lines 122-125 *)
ComputeEpsR ==
    /\ pc = "eps_r"
    /\ LET r == microstrip_eps_r(eps_eff, h, w)
       IN  IF r.exc # "none"
           THEN /\ out' = Append(out, r.exc)
                /\ pc' = "failed"
                /\ eps_r' = eps_r
           ELSE /\ eps_r' = r.val
                /\ out' = Append(out, "n_modes")
                /\ pc' = "loss_tangent"
    /\ UNCHANGED <<freq, mag_db, cfg, peaks, freqs, n_modes, L, h, w, eps_eff,
                   loss_tangents, df, means, calls>>

(* line 128 *)
ComputeLossTangent ==
    /\ pc = "loss_tangent"
    /\ loss_tangents' = calculate_loss_tangent(freq, mag_db, peaks)
    /\ pc' = "table"
    /\ UNCHANGED <<freq, mag_db, cfg, peaks, freqs, n_modes, L, h, w, eps_eff,
                   eps_r, df, means, out, calls>>

(* pd.DataFrame(dict(...)): row j takes the j-th entry of every column     *)
DataFrame(mode_col, freq_col, eff_col, r_col, loss_col) ==
    [j \in 1..Len(mode_col) |->
        [mode_n |-> mode_col[j], freq_Hz |-> freq_col[j], eps_eff |-> eff_col[j],
         eps_r |-> r_col[j], loss_tan |-> loss_col[j]]]

Column(frame, name) == [j \in 1..Len(frame) |-> frame[j][name]]

(* lines 131-139 *)
BuildTable ==
    /\ pc = "table"
    /\ df' = DataFrame(n_modes, freqs, eps_eff, eps_r, loss_tangents)
    /\ means' = [eps_eff |-> MeanOf(Column(df', "eps_eff")),
                 eps_r |-> MeanOf(Column(df', "eps_r")),
                 loss_tan |-> MeanOf(Column(df', "loss_tan"))]
    /\ out' = out \o <<"table", "means">>
    /\ pc' = "export"
    /\ UNCHANGED <<freq, mag_db, cfg, peaks, freqs, n_modes, L, h, w, eps_eff,
                   eps_r, loss_tangents, calls>>

(* lines 142-177 *)
Export ==
    /\ pc = "export"
    /\ out' = out \o (IF SAVE_CSV THEN <<"csv">> ELSE <<>>)
                  \o (IF SHOW_PLOT THEN <<"plot">> ELSE <<>>)
    /\ pc' = "done"
    /\ UNCHANGED <<freq, mag_db, cfg, peaks, freqs, n_modes, L, h, w, eps_eff,
                   eps_r, loss_tangents, df, means, calls>>

Next ==
    \/ FindPeaks
    \/ CheckPeaks
    \/ SetLength
    \/ ComputeEpsEff
    \/ ComputeEpsR
    \/ ComputeLossTangent
    \/ BuildTable
    \/ Export

Spec == Init /\ [][Next]_vars


-----------------------------------------------------------------------------
(* find_s21_peaks on its own: every trace, every threshold offset          *)

InitPeaks ==
    /\ mag_db \in Traces(MaxLen)
    /\ freq = RisingGrid(Len0(mag_db))
    /\ cfg \in {[MIN_PEAK_DB |-> m] : m \in 0..MaxPeakDb}
    /\ pc = "find_peaks"
    /\ Unset

NextPeaks == FindPeaks

SpecPeaks == InitPeaks /\ [][NextPeaks]_vars

-----------------------------------------------------------------------------
(* calculate_loss_tangent on its own: every trace with non-decreasing      *)
(* frequency points, every list of different in-range peak indices         *)

(* the lists of at most n different elements of S, in every order         *)
RECURSIVE ListsUpTo(_, _)
ListsUpTo(S, n) ==
    IF n = 0 THEN {<<>>}
    ELSE LET shorter == ListsUpTo(S, n - 1)
         IN  shorter \cup UNION {{Append(q, x) : x \in S \ {q[j] : j \in 1..Len(q)}} :
                                    q \in shorter}

NonDecreasing(f) == \A i \in DOMAIN f : i = 0 \/ f[i - 1] <= f[i]

StrictlyIncreasing(f) == \A i \in DOMAIN f : i = 0 \/ f[i - 1] < f[i]

InitLoss ==
    /\ mag_db \in Traces(MaxLossLen)
    /\ freq \in {f \in [DOMAIN mag_db -> {k * FreqStep : k \in 1..MaxFreq}] :
                   NonDecreasing(f)}
    /\ peaks \in ListsUpTo(DOMAIN mag_db, MaxPeaks)
    /\ freqs = Take(freq, peaks)
    /\ n_modes = Arange(1, Len(freqs) + 1)
    /\ cfg = [MIN_PEAK_DB |-> 1]
    /\ pc = "loss_tangent"
    /\ LaterUnset

NextLoss == ComputeLossTangent

SpecLoss == InitLoss /\ [][NextLoss]_vars

-----------------------------------------------------------------------------
(* estimate_effective_length followed by the ring resonance condition on   *)
(* the same known resonance: permittivities (a/b)^2 >= 1                   *)

KnownEps == {Fin(a * a, b * b) : a \in 1..MaxRoot, b \in 1..MaxRoot}

InitRoundTrip ==
    /\ mag_db = [i \in 0..1 |-> 0]
    /\ freq = RisingGrid(2)
    /\ \E e \in {x \in KnownEps : x.n >= x.d}, k \in 1..MaxCalFreq, m \in 1..MaxMode :
          cfg = [MIN_PEAK_DB |-> 1] @@
                WithCalibration(BaseConfig, <<e, k * FreqStep, m>>)
    /\ pc = "known_length"
    /\ Unset

(* line 113 with the known resonance *)
CalibrateKnown ==
    /\ pc = "known_length"
    /\ L' = estimate_effective_length(cfg.CALIBRATION_EPSILON,
                cfg.CALIBRATION_FREQ_HZ, cfg.CALIBRATION_MODE_N)
    /\ calls' = calls + 1
    /\ pc' = "known_eps"
    /\ UNCHANGED <<freq, mag_db, cfg, peaks, freqs, n_modes, h, w, eps_eff,
                   eps_r, loss_tangents, df, means, out>>

(* line 121 for the known mode and frequency *)
ReproduceKnown ==
    /\ pc = "known_eps"
    /\ eps_eff' = <<EffEps(cfg.CALIBRATION_MODE_N, cfg.CALIBRATION_FREQ_HZ, L)>>
    /\ pc' = "known_done"
    /\ UNCHANGED <<freq, mag_db, cfg, peaks, freqs, n_modes, L, h, w, eps_r,
                   loss_tangents, df, means, out, calls>>

NextRoundTrip == CalibrateKnown \/ ReproduceKnown

SpecRoundTrip == InitRoundTrip /\ [][NextRoundTrip]_vars

-----------------------------------------------------------------------------
(* Properties                                                              *)

Range(q) == {q[j] : j \in 1..Len(q)}

Ascending(q) == \A i, j \in 1..Len(q) : i < j => q[i] < q[j]

Remove(q, k) == SubSeq(q, 1, k - 1) \o SubSeq(q, k + 1, Len(q))

AtOrAbove(x, i, m) == FGe(Num(x[i]), FAdd(Median(x), Num(m)))

(* interior samples strictly above both neighbours and at or above the    *)
(* threshold                                                               *)
StrictMaxima(x, m) ==
    {i \in DOMAIN x : /\ 0 < i /\ i < Last(x)
                      /\ x[i] > x[i - 1] /\ x[i] > x[i + 1]
                      /\ AtOrAbove(x, i, m)}

(* middles of the interior runs of equal samples whose neighbours on both *)
(* sides are strictly lower, at or above the threshold                     *)
FlatMaxima(x, m) ==
    {(q[1] + q[2]) \div 2 :
        q \in {r \in (1..(Last(x) - 1)) \X (1..(Last(x) - 1)) :
                 /\ r[1] <= r[2]
                 /\ \A i \in r[1]..r[2] : x[i] = x[r[1]]
                 /\ x[r[1] - 1] < x[r[1]]
                 /\ x[r[2] + 1] < x[r[2]]
                 /\ AtOrAbove(x, r[1], m)}}

(* C1, as claimed: find_s21_peaks returns, in ascending index order,      *)
(* exactly the strict local maxima whose magnitude is at least            *)
(* median + minPeakDb.                                                     *)
C1_ExactlyStrictMaxima ==
    pc = "check_peaks" =>
        /\ Ascending(peaks)
        /\ Range(peaks) = StrictMaxima(mag_db, cfg.MIN_PEAK_DB)

(* C1, amended: find_s21_peaks returns, in ascending index order, exactly *)
(* the middle (rounded down) of every interior run of equal samples whose *)
(* neighbours on both sides are strictly lower and whose magnitude is at  *)
(* least median + minPeakDb; every strict local maximum at or above the   *)
(* threshold is among them, and the result is empty when every sample is  *)
(* below the threshold.                                                    *)
C1_FlatTopMaxima ==
    pc = "check_peaks" =>
        /\ Ascending(peaks)
        /\ Range(peaks) = FlatMaxima(mag_db, cfg.MIN_PEAK_DB)
        /\ StrictMaxima(mag_db, cfg.MIN_PEAK_DB) \subseteq Range(peaks)
        /\ (\A i \in DOMAIN mag_db : ~AtOrAbove(mag_db, i, cfg.MIN_PEAK_DB))
              => peaks = <<>>

(* a flat-topped resonance was reported, at a sample equal to its right    *)
(* neighbour                                                               *)
C1_Witness ==
    /\ pc = "check_peaks"
    /\ \E j \in 1..Len(peaks) : mag_db[peaks[j] + 1] = mag_db[peaks[j]]

WindowLeft(mag, p) ==
    LET below == {i \in 0..p : mag[i] <= mag[p] - 3}
    IN  IF below = {} THEN 0
        ELSE CHOOSE i \in below : \A k \in below : k <= i

WindowRight(mag, p) ==
    LET below == {i \in p..Last(mag) : mag[i] <= mag[p] - 3}
    IN  IF below = {} THEN Last(mag)
        ELSE CHOOSE i \in below : \A k \in below : i <= k

(* C2: for every peak index p the scans end with                          *)
(* 0 <= left <= p <= right <= last, left the nearest index at or below p  *)
(* that is 3 dB down (0 if none), right the nearest at or above p (last   *)
(* if none); the entry for p is (f[right] - f[left]) / f[p] when that     *)
(* bandwidth is > 0 and missing otherwise, clipped windows included.       *)
C2_HalfPowerWindow ==
    pc = "table" =>
        /\ Len(loss_tangents) = Len(peaks)
        /\ \A j \in 1..Len(peaks) :
            LET p == peaks[j]
                left == LeftOf(mag_db, p)
                right == RightOf(mag_db, p)
            IN  /\ 0 <= left /\ left <= p /\ p <= right /\ right <= Last(mag_db)
                /\ left = WindowLeft(mag_db, p)
                /\ right = WindowRight(mag_db, p)
                /\ loss_tangents[j] =
                      IF freq[right] - freq[left] > 0
                      THEN Fin(freq[right] - freq[left], freq[p])
                      ELSE NaN

(* a window found on the left and clipped at the last sample on the right *)
(* gave a value                                                            *)
C2_Witness ==
    /\ pc = "table"
    /\ \E j \in 1..Len(peaks) :
        LET p == peaks[j]
        IN  /\ LeftOf(mag_db, p) < p
            /\ mag_db[LeftOf(mag_db, p)] <= mag_db[p] - 3
            /\ RightOf(mag_db, p) = Last(mag_db)
            /\ mag_db[Last(mag_db)] > mag_db[p] - 3
            /\ IsFin(loss_tangents[j])

(* C3: when peak detection returns nothing, main raises at once: the run  *)
(* is at the check or has failed, and no calibration, permittivity, loss  *)
(* tangent, table, mean, CSV or plot has happened.                         *)
C3_NoPeaksIsFatal ==
    (pc # "find_peaks" /\ peaks = <<>>) =>
        /\ pc \in {"check_peaks", "failed"}
        /\ pc = "check_peaks" => ENABLED CheckPeaks
        /\ L = None /\ calls = 0
        /\ eps_eff = <<>> /\ eps_r = <<>> /\ loss_tangents = <<>>
        /\ df = <<>> /\ means = None
        /\ out = IF pc = "failed" THEN <<"threshold", "RuntimeError">>
                 ELSE <<"threshold">>

(* a run with no peak has failed                                           *)
C3_Witness == pc = "failed" /\ peaks = <<>> /\ out[Len(out)] = "RuntimeError"

HasGeometry == "SUBSTRATE_H_MM" \in DOMAIN cfg

(* C4: with height <= 0 or width <= 0 the run is rejected before any      *)
(* arithmetic: no effective permittivity is computed and                  *)
(* microstrip_eps_r returns nothing.                                       *)
C4_InvalidGeometryRejected ==
    (HasGeometry /\ InvalidGeometry(cfg)) =>
        /\ eps_eff = <<>> /\ eps_r = <<>>
        /\ pc \notin {"loss_tangent", "table", "export", "done"}

(* C5: with calibration on and permittivity <= 0 or frequency <= 0 the    *)
(* run fails: no length, no permittivity, no table.                        *)
C5_InvalidCalibrationRejected ==
    (HasGeometry /\ cfg.CALIBRATE_L /\ InvalidCalibration(cfg)) =>
        /\ pc = "failed"
        /\ L = None /\ eps_eff = <<>> /\ eps_r = <<>> /\ df = <<>>

(* the ring length lines 112-116 give                                      *)
LengthFor(c) ==
    IF c.CALIBRATE_L
    THEN estimate_effective_length(c.CALIBRATION_EPSILON, c.CALIBRATION_FREQ_HZ,
                                   c.CALIBRATION_MODE_N)
    ELSE Fin(c.RING_LENGTH_MM, 1000)

(* C6: a table built from k >= 1 peaks has k rows; row j carries mode j,  *)
(* the frequency of the j-th peak in ascending order, and the             *)
(* permittivities and loss tangent of that same peak.                      *)
C6_RowsFollowPeaks ==
    pc \in {"export", "done"} =>
        /\ Len(peaks) >= 1 /\ Len(df) = Len(peaks) /\ Ascending(peaks)
        /\ \A j \in 1..Len(df) :
            /\ df[j].mode_n = j
            /\ df[j].freq_Hz = freq[peaks[j]]
            /\ \A i \in 1..Len(df) : i < j => df[i].freq_Hz <= df[j].freq_Hz
            /\ df[j].eps_eff = EffEps(j, freq[peaks[j]], L)
            /\ df[j].eps_r = microstrip_eps_r(<<df[j].eps_eff>>, h, w).val[1]
            /\ df[j].loss_tan = LossTangentOf(freq, mag_db, peaks[j])

(* a table of two modes was exported                                       *)
C6_Witness == pc = "done" /\ Len(df) = 2 /\ df[2].mode_n = 2

(* C7: the length is unset until lines 112-116 set it, once, to the       *)
(* calibrator's result (one call) or the configured length (no call); the *)
(* permittivities of all modes are computed with it and it never changes. *)
C7_LengthFixedOnce ==
    [][/\ pc \in {"find_peaks", "check_peaks"} =>
            (L' = None /\ calls' = 0 /\ eps_eff' = <<>>)
       /\ pc = "set_length" =>
            /\ L' = LengthFor(cfg')
            /\ calls' = (IF cfg'.CALIBRATE_L THEN 1 ELSE 0)
            /\ eps_eff' = <<>>
       /\ pc \in {"eps_eff", "eps_r", "loss_tangent", "table", "export"} =>
            (L' = L /\ calls' = calls)
       /\ pc = "eps_eff" =>
            eps_eff' = [j \in 1..Len(peaks) |->
                          EffEps(j, freq[peaks[j]], LengthFor(cfg))]
      ]_vars

(* a calibrated run of two modes finished after one calibrator call        *)
C7_Witness ==
    /\ pc = "done" /\ cfg.CALIBRATE_L /\ calls = 1 /\ Len(eps_eff) = 2
    /\ L = Num(7)

(* C8: the length estimated from a known resonance, put back into the     *)
(* ring resonance condition with the same mode and frequency, gives the   *)
(* known permittivity.                                                     *)
C8_RoundTrip ==
    pc = "known_done" => eps_eff = <<cfg.CALIBRATION_EPSILON>>

(* the round trip ran on a permittivity other than 1                       *)
C8_Witness ==
    /\ pc = "known_done"
    /\ cfg.CALIBRATION_EPSILON = Num(4)
    /\ cfg.CALIBRATION_MODE_N = 2
    /\ L # None

Bandwidth(p) == freq[RightOf(mag_db, p)] - freq[LeftOf(mag_db, p)]

(* C9: calculate_loss_tangent returns one entry per peak, in peak order;  *)
(* a peak without bandwidth gets a missing value, and the other entries   *)
(* are what they are without that peak in the list.                        *)
C9_OneEntryPerPeak ==
    pc = "table" =>
        /\ Len(loss_tangents) = Len(peaks)
        /\ \A j \in 1..Len(peaks) :
            /\ Bandwidth(peaks[j]) <= 0 <=> IsNaN(loss_tangents[j])
            /\ calculate_loss_tangent(freq, mag_db, <<peaks[j]>>)
                  = <<loss_tangents[j]>>
            /\ calculate_loss_tangent(freq, mag_db, Remove(peaks, j))
                  = Remove(loss_tangents, j)

(* a peak without bandwidth came before one with a value                   *)
C9_Witness ==
    /\ pc = "table" /\ Len(peaks) = 2
    /\ IsNaN(loss_tangents[1]) /\ IsFin(loss_tangents[2])

(* C10: on a trace of two or more points with strictly increasing         *)
(* frequencies every detected peak has left < p < right, a bandwidth > 0  *)
(* and a loss tangent that is a number > 0.                                *)
C10_DetectedPeaksHaveBandwidth ==
    (/\ pc \in {"table", "export", "done"}
     /\ Len0(mag_db) >= 2 /\ StrictlyIncreasing(freq)) =>
        /\ Len(loss_tangents) = Len(peaks)
        /\ \A j \in 1..Len(peaks) :
            /\ LeftOf(mag_db, peaks[j]) < peaks[j]
            /\ peaks[j] < RightOf(mag_db, peaks[j])
            /\ Bandwidth(peaks[j]) > 0
            /\ IsFin(loss_tangents[j]) /\ loss_tangents[j].n > 0

(* the loss tangents of two detected peaks were computed                   *)
C10_Witness ==
    /\ pc = "table" /\ StrictlyIncreasing(freq) /\ Len(peaks) = 2
    /\ IsFin(loss_tangents[2])

=============================================================================
